---------------------------- MODULE Spec2Model ----------------------------
(***************************************************************************)
(* ShiftSavvy payroll engine (src/app.py).                                 *)
(*                                                                         *)
(* State: the three SQLite tables the engine reads (jobs, shifts,          *)
(* expenses), the calendar day date.today() returns, and the snapshot the  *)
(* dashboard holds after compute_financials.                               *)
(*                                                                         *)
(* Units.  Python floats are modelled by exact integers:                   *)
(*   - a date is a day number, day 0 = Monday 2024-01-01;                  *)
(*   - hours are whole hours;                                              *)
(*   - ot_multiplier is kept in tenths (15 = 1.5);                         *)
(*   - an hourly rate with differential is kept in hundredths, so that     *)
(*     base_rate * (diff_value / 100) is exact;                            *)
(*   - earnings are therefore in thousandths of a currency unit, and the   *)
(*     expense amounts (whole units in the table) are brought to the same  *)
(*     unit when they meet earnings;                                       *)
(*   - a mean is kept as an exact fraction [num, den].                     *)
(***************************************************************************)
EXTENDS Integers, Sequences, FiniteSets, TLC

VARIABLES jobs, shifts, expenses, today, data, trace

vars == <<jobs, shifts, expenses, today, data, trace>>

(***************************************************************************)
(* Bounds of the model                                                     *)
(***************************************************************************)
\* shifts entered through the Quick Add form, on top of the seeded ones
MaxAddedShifts == 1
\* expenses entered through the Quick Add form, on top of the seeded ones
MaxAddedExpenses == 1

\* days on which the application is first started
Todays == {2, 7}
\* the date picked in a Quick Add form, in days before today
DayOffsets == {1, 4, 16}
\* hours entered in the Quick Add shift form (within its 0..24 range)
HourChoices == {6, 10}
\* amounts entered in the Quick Add expense form
AmountChoices == {25}
\* base rates entered in the job editor beside the stored one (min_value=0.0)
BaseRateChoices == {0}

(***************************************************************************)
(* Generic helpers                                                         *)
(***************************************************************************)
Min(a, b) == IF a <= b THEN a ELSE b

Max(a, b) == IF a >= b THEN a ELSE b

RECURSIVE SumSeq(_)
SumSeq(s) == IF s = <<>> THEN 0 ELSE Head(s) + SumSeq(Tail(s))

RECURSIVE SumOver(_, _)
\* sum of f[x] over the finite set S
SumOver(f, S) ==
  IF S = {} THEN 0
  ELSE LET x == CHOOSE y \in S : TRUE IN f[x] + SumOver(f, S \ {x})

\* lexicographic order on (job_id, year, week) keys
KeyLess(a, b) ==
  \/ a[1] < b[1]
  \/ a[1] = b[1] /\ a[2] < b[2]
  \/ a[1] = b[1] /\ a[2] = b[2] /\ a[3] < b[3]

RECURSIVE SortedInts(_)
\* the elements of a finite set of integers, ascending
SortedInts(S) ==
  IF S = {} THEN <<>>
  ELSE LET m == CHOOSE x \in S : \A y \in S : x <= y
       IN  <<m>> \o SortedInts(S \ {m})

RECURSIVE SortedKeys(_)
\* the elements of a finite set of (job_id, year, week) keys, ascending
SortedKeys(S) ==
  IF S = {} THEN <<>>
  ELSE LET m == CHOOSE x \in S : \A y \in S \ {x} : KeyLess(x, y)
       IN  <<m>> \o SortedKeys(S \ {m})

Range(s) == {s[i] : i \in DOMAIN s}

(***************************************************************************)
(* Calendar: datetime.date, pandas isocalendar() and to_period('W-MON')    *)
(***************************************************************************)
\* Python date.weekday(): 0 = Monday ... 6 = Sunday
Weekday(d) == d % 7

IsLeap(y) == (y % 4 = 0 /\ y % 100 # 0) \/ y % 400 = 0

DaysInYear(y) == IF IsLeap(y) THEN 366 ELSE 365

RECURSIVE YearStart(_)
\* day number of January 1st of year y
YearStart(y) ==
  IF y = 2024 THEN 0
  ELSE IF y > 2024 THEN YearStart(y - 1) + DaysInYear(y - 1)
  ELSE YearStart(y + 1) - DaysInYear(y)

Years == 2022..2026

YearOf(d) == CHOOSE y \in Years : YearStart(y) <= d /\ d < YearStart(y + 1)

\* Monday of ISO week 1 of year y (the week holding the year's first Thursday)
IsoWeek1Monday(y) ==
  LET firstday     == YearStart(y)
      firstweekday == Weekday(firstday)
      week1monday  == firstday - firstweekday
  IN  IF firstweekday > 3 THEN week1monday + 7 ELSE week1monday

\* shift_date.dt.isocalendar(): the ISO year and ISO week of day d
IsoCalendar(d) ==
  LET y  == YearOf(d)
      w  == (d - IsoWeek1Monday(y)) \div 7
  IN  IF w < 0
        THEN [year |-> y - 1, week |-> ((d - IsoWeek1Monday(y - 1)) \div 7) + 1]
      ELSE IF w >= 52 /\ d >= IsoWeek1Monday(y + 1)
        THEN [year |-> y + 1, week |-> 1]
      ELSE [year |-> y, week |-> w + 1]

\* cumulative days before each month
DaysBeforeMonth(y) ==
  LET l == IF IsLeap(y) THEN 1 ELSE 0
  IN  <<0, 31, 59 + l, 90 + l, 120 + l, 151 + l, 181 + l, 212 + l,
        243 + l, 273 + l, 304 + l, 334 + l, 365 + l>>

\* SQLite date('now','start of month')
StartOfMonth(d) ==
  LET y   == YearOf(d)
      doy == d - YearStart(y)
      cum == DaysBeforeMonth(y)
      m   == CHOOSE k \in 1..12 : cum[k] <= doy /\ doy < cum[k + 1]
  IN  YearStart(y) + cum[m]

\* Timestamp.to_period('W-MON').start_time: 'W-MON' is the weekly frequency
\* whose periods END on a Monday, so the period holding d runs from the
\* Tuesday on or before d to the Monday on or after d.
PeriodStart(d) ==
  LET end_day == d + ((7 - Weekday(d)) % 7)
  IN  end_day - 6

(***************************************************************************)
(* Database tables and their seeds (init_db)                               *)
(***************************************************************************)
\* jobs seeded when the jobs table is empty
SeedJobs ==
  (1 :> [base_rate |-> 38, ot_rule |-> "weekly_40", ot_multiplier |-> 15,
         diff_type |-> "percent", diff_value |-> 10, active |-> TRUE]) @@
  (2 :> [base_rate |-> 55, ot_rule |-> "daily_8", ot_multiplier |-> 15,
         diff_type |-> "fixed", diff_value |-> 2, active |-> TRUE])

\* the five demo shifts, inserted in the order of the list [1,2,3,5,6]
SeedShifts(t) ==
  LET offs == <<1, 2, 3, 5, 6>>
  IN  [i \in 1..5 |->
         LET d == t - offs[i]
         IN  [id |-> i, job_id |-> 1, shift_date |-> d,
              hours |-> IF Weekday(d) \in {5, 6} THEN 12 ELSE 10]]

\* the three demo expenses
SeedExpenses(t) ==
  << [id |-> 1, amount |-> 60,   expense_date |-> t],
     [id |-> 2, amount |-> 120,  expense_date |-> t],
     [id |-> 3, amount |-> 1500, expense_date |-> StartOfMonth(t)] >>

NoData == [status |-> "none"]

Init ==
  /\ today \in Todays
  /\ jobs = SeedJobs
  /\ shifts = SeedShifts(today)
  /\ expenses = SeedExpenses(today)
  /\ data = NoData
  /\ trace = <<>>


(***************************************************************************)
(* Business logic                                                          *)
(***************************************************************************)
\* list_jobs(active_only=True): the ids of the rows with active=1
list_jobs(active_only) ==
  IF active_only THEN {j \in DOMAIN jobs : jobs[j].active} ELSE DOMAIN jobs

\* calc_differential, in hundredths of a currency unit per hour
calc_differential(base_rate, diff_type, diff_value) ==
  IF diff_type = "percent" THEN base_rate * diff_value
  ELSE diff_value * 100

\* rate_with_diff = base_rate + diff, in hundredths per hour
rate_with_diff(job) ==
  job.base_rate * 100
    + calc_differential(job.base_rate, job.diff_type, job.diff_value)

\* calc_shift_earnings with the overtime hours paid at the plain rate
calc_shift_earnings_plain_ot(hours, job) ==
  LET rate == rate_with_diff(job)
  IN  IF job.ot_rule = "daily_8"
        THEN LET regular_hours == Min(8, hours)
                 ot_hours      == Max(0, hours - 8)
             IN  [earnings |-> regular_hours * rate * 10 + ot_hours * rate * 10,
                  regular_hours |-> regular_hours,
                  ot_hours |-> ot_hours]
        ELSE [earnings |-> hours * rate * 10,
              regular_hours |-> hours,
              ot_hours |-> 0]

\* calc_shift_earnings: (earnings, regular_hours, ot_hours) of one shift
calc_shift_earnings(hours, job) ==
  LET rate == rate_with_diff(job)
  IN  IF job.ot_rule = "daily_8"
        THEN LET regular_hours == Min(8, hours)
                 ot_hours      == Max(0, hours - 8)
             IN  [earnings |-> regular_hours * rate * 10
                                 + ot_hours * (rate * job.ot_multiplier),
                  regular_hours |-> regular_hours,
                  ot_hours |-> ot_hours]
        ELSE [earnings |-> hours * rate * 10,
              regular_hours |-> hours,
              ot_hours |-> 0]

RECURSIVE DateOrders(_)
\* "SELECT * FROM shifts ORDER BY shift_date ASC": every arrangement of the
\* rows with ascending dates; SQL leaves the order of equal dates open
DateOrders(rows) ==
  IF rows = {} THEN {<<>>}
  ELSE UNION { { <<r>> \o t : t \in DateOrders(rows \ {r}) } :
               r \in {x \in rows : \A y \in rows : x.shift_date <= y.shift_date} }

RECURSIVE ExpensesByDate(_)
\* "SELECT * FROM expenses ORDER BY expense_date ASC" (equal dates by id)
ExpensesByDate(rows) ==
  IF rows = {} THEN <<>>
  ELSE LET r == CHOOSE x \in rows : \A y \in rows \ {x} :
                  \/ x.expense_date < y.expense_date
                  \/ x.expense_date = y.expense_date /\ x.id < y.id
       IN  <<r>> \o ExpensesByDate(rows \ {r})

\* shifts.merge(jobs, left_on="job_id", right_on="id"): an inner join that
\* keeps the left order and only the rows whose job is in the job frame
MergeJobs(frame, job_ids) ==
  LET kept == SelectSeq(frame, LAMBDA r : r.job_id \in job_ids)
  IN  [i \in 1..Len(kept) |->
         LET r == kept[i]
             j == jobs[r.job_id]
         IN  [id |-> r.id, job_id |-> r.job_id, shift_date |-> r.shift_date,
              hours |-> r.hours, base_rate |-> j.base_rate,
              ot_rule |-> j.ot_rule, ot_multiplier |-> j.ot_multiplier,
              diff_type |-> j.diff_type, diff_value |-> j.diff_value]]

\* the per-shift loop: earnings_initial, daily_regular_hours, daily_ot_hours
\* and the ISO week and year columns
PerShift(frame) ==
  [i \in 1..Len(frame) |->
     LET r == frame[i]
         c == calc_shift_earnings(r.hours,
                [base_rate |-> r.base_rate, ot_rule |-> r.ot_rule,
                 ot_multiplier |-> r.ot_multiplier,
                 diff_type |-> r.diff_type, diff_value |-> r.diff_value])
         iso == IsoCalendar(r.shift_date)
     IN  [id |-> r.id, job_id |-> r.job_id, shift_date |-> r.shift_date,
          hours |-> r.hours, ot_rule |-> r.ot_rule,
          earnings_initial |-> c.earnings,
          daily_regular_hours |-> c.regular_hours,
          daily_ot_hours |-> c.ot_hours,
          week |-> iso.week, year |-> iso.year]]

RECURSIVE WalkGroupKeepBudget(_, _, _, _)
\* the walk with the budget never lowered ("reg_left -= reg" left out)
WalkGroupKeepBudget(hs, reg_left, rate, ot_mult) ==
  IF hs = <<>> THEN <<>>
  ELSE LET h   == Head(hs)
           reg == Min(reg_left, h)
           ot  == Max(0, h - reg)
           pay == reg * rate * 10 + ot * (rate * ot_mult)
       IN  <<[h |-> h, reg |-> reg, ot |-> ot, reg_left |-> reg_left,
              pay |-> pay]>>
             \o WalkGroupKeepBudget(Tail(hs), reg_left, rate, ot_mult)

RECURSIVE WalkGroup(_, _, _, _)
\* the loop over group.iterrows() with the regular-hours budget reg_left
WalkGroup(hs, reg_left, rate, ot_mult) ==
  IF hs = <<>> THEN <<>>
  ELSE LET h   == Head(hs)
           reg == Min(reg_left, h)
           ot  == Max(0, h - reg)
           pay == reg * rate * 10 + ot * (rate * ot_mult)
       IN  <<[h |-> h, reg |-> reg, ot |-> ot, reg_left |-> reg_left - reg,
              pay |-> pay]>>
             \o WalkGroup(Tail(hs), reg_left - reg, rate, ot_mult)

\* one iteration of "for (job_id, year, week), group in shifts.groupby(...)":
\* the rows of the group in frame order and the pay it appends
AdjustGroup(frame, key) ==
  LET idx   == SelectSeq([i \in 1..Len(frame) |-> i],
                 LAMBDA i : <<frame[i].job_id, frame[i].year, frame[i].week>> = key)
      job   == jobs[key[1]]
      rate  == rate_with_diff(job)
      hs    == [k \in 1..Len(idx) |-> frame[idx[k]].hours]
      total_hours == SumSeq(hs)
      walk  == IF job.ot_rule = "weekly_40" /\ total_hours > 40
                 THEN WalkGroup(hs, 40, rate, job.ot_multiplier)
                 ELSE <<>>
      pays  == IF job.ot_rule # "weekly_40"
                 THEN [k \in 1..Len(idx) |-> frame[idx[k]].earnings_initial]
               ELSE IF total_hours <= 40
                 THEN [k \in 1..Len(idx) |-> hs[k] * rate * 10]
               ELSE [k \in 1..Len(walk) |-> walk[k].pay]
  IN  [job_id |-> key[1], year |-> key[2], week |-> key[3],
       ot_rule |-> job.ot_rule, rate |-> rate, ot_multiplier |-> job.ot_multiplier,
       rows |-> idx, dates |-> [k \in 1..Len(idx) |-> frame[idx[k]].shift_date],
       total_hours |-> total_hours, walk |-> walk, pays |-> pays]

\* shifts.groupby(["job_id","year","week"]): the groups in ascending key order
GroupBy(frame) ==
  LET keys == SortedKeys({<<frame[i].job_id, frame[i].year, frame[i].week>> :
                            i \in DOMAIN frame})
  IN  [g \in 1..Len(keys) |-> AdjustGroup(frame, keys[g])]

RECURSIVE Concat(_)
\* adjusted_earnings.extend(...) over the groups in turn
Concat(groups) ==
  IF groups = <<>> THEN <<>>
  ELSE Head(groups).pays \o Concat(Tail(groups))

\* shifts["earnings"] = adjusted_earnings: a list is assigned by position,
\* element i of the list to row i of the frame
AssignEarnings(frame, adjusted_earnings) ==
  [i \in 1..Len(frame) |->
     [id |-> frame[i].id, job_id |-> frame[i].job_id,
      shift_date |-> frame[i].shift_date, hours |-> frame[i].hours,
      ot_rule |-> frame[i].ot_rule,
      earnings_initial |-> frame[i].earnings_initial,
      daily_regular_hours |-> frame[i].daily_regular_hours,
      daily_ot_hours |-> frame[i].daily_ot_hours,
      week |-> frame[i].week, year |-> frame[i].year,
      earnings |-> adjusted_earnings[i],
      week_start |-> PeriodStart(frame[i].shift_date)]]

\* expenses["week_start"] = ...to_period('W-MON')...start_time
ExpenseWeeks(frame) ==
  [i \in 1..Len(frame) |->
     [id |-> frame[i].id, amount |-> frame[i].amount,
      expense_date |-> frame[i].expense_date,
      week_start |-> PeriodStart(frame[i].expense_date)]]

\* shifts.groupby("week_start")["earnings"].sum().reset_index()
WeeklyEarnings(frame) ==
  LET ws == SortedInts({frame[i].week_start : i \in DOMAIN frame})
  IN  [k \in 1..Len(ws) |->
         [week_start |-> ws[k],
          earnings |-> SumSeq([i \in 1..Len(frame) |->
                          IF frame[i].week_start = ws[k]
                            THEN frame[i].earnings ELSE 0])]]

\* expenses.groupby("week_start")["amount"].sum().reset_index()
WeeklyExpenses(frame) ==
  LET ws == SortedInts({frame[i].week_start : i \in DOMAIN frame})
  IN  [k \in 1..Len(ws) |->
         [week_start |-> ws[k],
          amount |-> SumSeq([i \in 1..Len(frame) |->
                        IF frame[i].week_start = ws[k]
                          THEN frame[i].amount ELSE 0])]]

\* frame.loc[frame["week_start"] == w, column].sum()
SumAtWeek(values, weeks, w) ==
  SumSeq([i \in 1..Len(values) |-> IF weeks[i] = w THEN values[i] ELSE 0])

\* the merge with how="left": only the weeks of the earnings series
OuterMergeLeftOnly(weekly_earnings, weekly_expenses) ==
  [k \in 1..Len(weekly_earnings) |->
     [week_start |-> weekly_earnings[k].week_start,
      earnings |-> weekly_earnings[k].earnings,
      amount |-> SumSeq([i \in 1..Len(weekly_expenses) |->
                    IF weekly_expenses[i].week_start = weekly_earnings[k].week_start
                      THEN weekly_expenses[i].amount ELSE 0])]]

\* pd.merge(weekly_earnings, weekly_expenses, how="outer",
\*          on="week_start").fillna(0.0)
OuterMerge(weekly_earnings, weekly_expenses) ==
  LET lk == {weekly_earnings[i].week_start : i \in DOMAIN weekly_earnings}
      rk == {weekly_expenses[i].week_start : i \in DOMAIN weekly_expenses}
      ks == SortedInts(lk \cup rk)
  IN  [k \in 1..Len(ks) |->
         [week_start |-> ks[k],
          earnings |-> IF ks[k] \in lk
                         THEN (CHOOSE r \in Range(weekly_earnings) :
                                 r.week_start = ks[k]).earnings
                         ELSE 0,
          amount |-> IF ks[k] \in rk
                       THEN (CHOOSE r \in Range(weekly_expenses) :
                               r.week_start = ks[k]).amount
                       ELSE 0]]

\* the mean taken over the weeks that have earnings only
AvgWeeklyNetOverEarningWeeks(all_weeks) ==
  LET paid == SelectSeq(all_weeks, LAMBDA r : r.earnings # 0)
  IN  IF Len(paid) > 0
        THEN [num |-> SumSeq([i \in 1..Len(all_weeks) |->
                         all_weeks[i].earnings - all_weeks[i].amount * 1000]),
              den |-> Len(paid)]
        ELSE [num |-> 0, den |-> 1]

\* (all_weeks["earnings"] - all_weeks["amount"]).mean() as a fraction, in
\* thousandths; 0.0 for an empty table
AvgWeeklyNet(all_weeks) ==
  IF Len(all_weeks) > 0
    THEN [num |-> SumSeq([i \in 1..Len(all_weeks) |->
                     all_weeks[i].earnings - all_weeks[i].amount * 1000]),
          den |-> Len(all_weeks)]
    ELSE [num |-> 0, den |-> 1]

\* compute_financials on the shift frame the query returned
compute_financials(shift_rows) ==
  LET job_ids  == list_jobs(TRUE)
      merged   == MergeJobs(shift_rows, job_ids)
      initial  == PerShift(merged)
      groups   == GroupBy(initial)
      final    == AssignEarnings(initial, Concat(groups))
      exps     == ExpenseWeeks(ExpensesByDate(Range(expenses)))
      weekly_earnings == WeeklyEarnings(final)
      weekly_expenses == WeeklyExpenses(exps)
      current_week_start == PeriodStart(today)
      earnings_this_week ==
        SumAtWeek([i \in 1..Len(weekly_earnings) |-> weekly_earnings[i].earnings],
                  [i \in 1..Len(weekly_earnings) |-> weekly_earnings[i].week_start],
                  current_week_start)
      expenses_this_week ==
        SumAtWeek([i \in 1..Len(weekly_expenses) |-> weekly_expenses[i].amount],
                  [i \in 1..Len(weekly_expenses) |-> weekly_expenses[i].week_start],
                  current_week_start)
      all_weeks == OuterMerge(weekly_earnings, weekly_expenses)
      avg_weekly_net == AvgWeeklyNet(all_weeks)
  IN  [snapshot |->
         [status |-> "returned",
          jobs |-> job_ids,
          shifts |-> final,
          expenses |-> exps,
          weekly_earnings |-> weekly_earnings,
          weekly_expenses |-> weekly_expenses,
          current_week_start |-> current_week_start,
          earnings_this_week |-> earnings_this_week,
          expenses_this_week |-> expenses_this_week,
          net_this_week |-> earnings_this_week - expenses_this_week * 1000,
          all_weeks |-> all_weeks,
          projected_annual_net |-> [num |-> avg_weekly_net.num * 52,
                                    den |-> avg_weekly_net.den]],
       groups |-> groups]

(***************************************************************************)
(* Handlers                                                                *)
(***************************************************************************)
\* page_dashboard: data = compute_financials(settings)
Dashboard ==
  /\ data = NoData
  /\ \E shift_rows \in DateOrders(Range(shifts)) :
       LET r == compute_financials(shift_rows)
       IN  /\ data' = r.snapshot
           /\ trace' = r.groups
  /\ UNCHANGED <<jobs, shifts, expenses, today>>

\* the "Quick Add" shift form: add_shift for one of the active jobs
QuickAddShift ==
  /\ Len(shifts) < 5 + MaxAddedShifts
  /\ \E j \in list_jobs(TRUE), off \in DayOffsets, hrs \in HourChoices :
       shifts' = Append(shifts, [id |-> Len(shifts) + 1, job_id |-> j,
                                 shift_date |-> today - off, hours |-> hrs])
  /\ data' = NoData
  /\ trace' = <<>>
  /\ UNCHANGED <<jobs, expenses, today>>

\* the "Quick Add" expense form: add_expense
QuickAddExpense ==
  /\ Len(expenses) < 3 + MaxAddedExpenses
  /\ \E amt \in AmountChoices, off \in DayOffsets :
       expenses' = Append(expenses, [id |-> Len(expenses) + 1, amount |-> amt,
                                     expense_date |-> today - off])
  /\ data' = NoData
  /\ trace' = <<>>
  /\ UNCHANGED <<jobs, shifts, today>>

\* the job editor's Save button: update_job
EditJob ==
  /\ \E j \in list_jobs(FALSE) :
     \E rate \in {jobs[j].base_rate} \cup BaseRateChoices,
        rule \in {"weekly_40", "daily_8"},
        act \in BOOLEAN :
       jobs' = [jobs EXCEPT ![j] =
                  [base_rate |-> rate, ot_rule |-> rule,
                   ot_multiplier |-> jobs[j].ot_multiplier,
                   diff_type |-> jobs[j].diff_type,
                   diff_value |-> jobs[j].diff_value, active |-> act]]
  /\ data' = NoData
  /\ trace' = <<>>
  /\ UNCHANGED <<shifts, expenses, today>>

Next ==
  \/ Dashboard
  \/ QuickAddShift
  \/ QuickAddExpense
  \/ EditJob

Spec == Init /\ [][Next]_vars

(***************************************************************************)
(* Properties                                                              *)
(***************************************************************************)
Returned == data.status = "returned"

\* base_rate + differential in hundredths per hour, written out from the
\* job record: percent adds base_rate*value/100, fixed adds value
HourlyRate(job) ==
  IF job.diff_type = "percent"
    THEN 100 * job.base_rate + job.base_rate * job.diff_value
    ELSE 100 * job.base_rate + 100 * job.diff_value

\* regular*rate + overtime*rate*multiplier in thousandths
SplitPay(regular, overtime, job) ==
  10 * regular * HourlyRate(job) + overtime * HourlyRate(job) * job.ot_multiplier

\* the (job, ISO year, ISO week) key of a row of the per-shift results
RowKey(r) == <<r.job_id, r.year, r.week>>

\* sum of one column over the rows of the per-shift results with key k
GroupSum(k, column(_)) ==
  SumSeq([i \in 1..Len(data.shifts) |->
            IF RowKey(data.shifts[i]) = k THEN column(data.shifts[i]) ELSE 0])

HoursOf(r) == r.hours

RegularOf(r) == r.daily_regular_hours

OvertimeOf(r) == r.daily_ot_hours

\* the weekly_40 groups of the per-shift results that total more than 40 hours
OvertimeGroups ==
  {k \in {RowKey(data.shifts[i]) : i \in DOMAIN data.shifts} :
     jobs[k[1]].ot_rule = "weekly_40" /\ GroupSum(k, HoursOf) > 40}

\* C1: every shift of a daily_8 job ends with final earnings equal to
\* min(8,h)*rate + max(0,h-8)*rate*multiplier of its own hours and its own
\* job, whatever other jobs' shifts lie between its dates.
C1_DailyShiftKeepsOwnEarnings ==
  Returned =>
    \A i \in DOMAIN data.shifts :
      LET r == data.shifts[i]
          j == jobs[r.job_id]
      IN  j.ot_rule = "daily_8" =>
            r.earnings = SplitPay(Min(8, r.hours), Max(0, r.hours - 8), j)

\* C2: for a weekly_40 group totalling T > 40 hours the regular hours the
\* per-shift results report sum to 40 and the overtime hours to T - 40.
C2_ReportedSplitSumsTo40 ==
  Returned =>
    \A k \in OvertimeGroups :
      /\ GroupSum(k, RegularOf) = 40
      /\ GroupSum(k, OvertimeOf) = GroupSum(k, HoursOf) - 40

\* the hours of the rows of the per-shift results a group record covers
GroupHours(g) == SumSeq([k \in 1..Len(g.rows) |-> data.shifts[g.rows[k]].hours])

\* the reallocator's record of a weekly_40 group totalling more than 40 hours
Reallocated(g) == jobs[g.job_id].ot_rule = "weekly_40" /\ GroupHours(g) > 40

\* the budget a step of the walk starts with
BudgetBefore(g, k) == IF k = 1 THEN 40 ELSE g.walk[k - 1].reg_left

\* C3: over a weekly_40 group with T > 40 the reallocator visits the shifts
\* in ascending date order with a budget starting at 40; each step takes
\* regular = min(budget, hours), overtime = hours - regular, lowers the
\* budget by regular and pays regular*rate + overtime*rate*multiplier; the
\* budget never goes below 0, after it reaches 0 every later shift is all
\* overtime, and the pay of the group totals 40*rate + (T-40)*rate*multiplier.
C3_BudgetWalk ==
  \A n \in DOMAIN trace :
    LET g == trace[n]
        j == jobs[g.job_id]
    IN  Reallocated(g) =>
          /\ Range(g.rows) = {i \in DOMAIN data.shifts :
                                RowKey(data.shifts[i]) = <<g.job_id, g.year, g.week>>}
          /\ Len(g.walk) = Len(g.rows)
          /\ \A k \in DOMAIN g.walk :
                LET w == g.walk[k]
                    b == BudgetBefore(g, k)
                IN  /\ w.h = data.shifts[g.rows[k]].hours
                    /\ k > 1 => g.dates[k - 1] <= g.dates[k]
                    /\ g.dates[k] = data.shifts[g.rows[k]].shift_date
                    /\ w.reg = Min(b, w.h)
                    /\ w.ot = w.h - w.reg
                    /\ w.reg_left = b - w.reg
                    /\ w.reg_left >= 0
                    /\ w.pay = SplitPay(w.reg, w.ot, j)
                    /\ b = 0 => w.reg = 0 /\ w.ot = w.h
          /\ SumSeq([k \in 1..Len(g.walk) |-> g.walk[k].pay])
               = SplitPay(40, GroupHours(g) - 40, j)
          /\ SumSeq(g.pays) = SplitPay(40, GroupHours(g) - 40, j)

\* C3 witness: a group over 40 hours was walked, its budget ran out and a
\* later shift of the group was paid as overtime only.
C3_Witness ==
  \E n \in DOMAIN trace :
    /\ Reallocated(trace[n])
    /\ \E k \in DOMAIN trace[n].walk :
         /\ k > 1
         /\ trace[n].walk[k - 1].reg_left = 0
         /\ trace[n].walk[k - 1].reg > 0
         /\ trace[n].walk[k].h > 0
         /\ trace[n].walk[k].ot = trace[n].walk[k].h

\* the week key of a dated record is the Monday of the week holding the date
MondayKey(week_start, d) ==
  /\ Weekday(week_start) = 0
  /\ week_start <= d
  /\ d - week_start <= 6

\* C4: every shift and every expense is keyed by the Monday that starts the
\* week holding its date, and the current week likewise from today.
C4_WeekStartIsMonday ==
  Returned =>
    /\ \A i \in DOMAIN data.shifts :
         MondayKey(data.shifts[i].week_start, data.shifts[i].shift_date)
    /\ \A i \in DOMAIN data.expenses :
         MondayKey(data.expenses[i].week_start, data.expenses[i].expense_date)
    /\ MondayKey(data.current_week_start, today)

\* C5: a shift whose job is not in the job collection the engine loaded is
\* never left out of a returned result: compute_financials fails instead.
C5_NoShiftSilentlyDropped ==
  Returned =>
    \A s \in Range(shifts) :
      \E i \in DOMAIN data.shifts : data.shifts[i].id = s.id

\* C6: in a weekly_40 group totalling at most 40 hours every shift ends with
\* final earnings hours*rate, whatever its own length.
C6_StraightPayUpTo40 ==
  Returned =>
    \A i \in DOMAIN data.shifts :
      LET r == data.shifts[i]
          j == jobs[r.job_id]
      IN  (j.ot_rule = "weekly_40" /\ GroupSum(RowKey(r), HoursOf) <= 40) =>
            r.earnings = 10 * r.hours * HourlyRate(j)

\* C7: for a daily_8 job calc_shift_earnings returns regular = min(8,h),
\* overtime = max(0,h-8), earnings = regular*rate + overtime*rate*multiplier
\* with rate = base_rate + differential; so regular + overtime = h, and
\* h <= 8 gives overtime 0 and earnings h*rate.
C7_Daily8Split ==
  Returned =>
    \A i \in DOMAIN data.shifts :
      LET r == data.shifts[i]
          j == jobs[r.job_id]
      IN  j.ot_rule = "daily_8" =>
            /\ r.daily_regular_hours = (IF r.hours <= 8 THEN r.hours ELSE 8)
            /\ r.daily_ot_hours = (IF r.hours <= 8 THEN 0 ELSE r.hours - 8)
            /\ r.daily_regular_hours + r.daily_ot_hours = r.hours
            /\ r.earnings_initial
                 = SplitPay(r.daily_regular_hours, r.daily_ot_hours, j)
            /\ r.hours <= 8 =>
                 r.earnings_initial = 10 * r.hours * HourlyRate(j)

\* C7 witness: the results hold a daily_8 shift above 8 hours of a job with
\* a percent differential and a daily_8 shift of at most 8 hours of a job
\* with a fixed differential.
C7_Witness ==
  /\ Returned
  /\ \E i \in DOMAIN data.shifts :
       /\ jobs[data.shifts[i].job_id].ot_rule = "daily_8"
       /\ jobs[data.shifts[i].job_id].diff_type = "percent"
       /\ jobs[data.shifts[i].job_id].base_rate > 0
       /\ data.shifts[i].hours > 8
  /\ \E i \in DOMAIN data.shifts :
       /\ jobs[data.shifts[i].job_id].ot_rule = "daily_8"
       /\ jobs[data.shifts[i].job_id].diff_type = "fixed"
       /\ data.shifts[i].hours <= 8

\* the weeks that hold a shift of the per-shift results
ShiftWeeks == {data.shifts[i].week_start : i \in DOMAIN data.shifts}

\* the weeks that hold an expense
ExpenseWeekSet == {data.expenses[i].week_start : i \in DOMAIN data.expenses}

ActiveWeeks == ShiftWeeks \cup ExpenseWeekSet

\* earnings minus expenses of week w, in thousandths; a week without shifts
\* or without expenses counts 0 on that side
WeekNet ==
  [w \in ActiveWeeks |->
     SumSeq([i \in 1..Len(data.shifts) |->
               IF data.shifts[i].week_start = w
                 THEN data.shifts[i].earnings ELSE 0])
     - 1000 * SumSeq([i \in 1..Len(data.expenses) |->
                        IF data.expenses[i].week_start = w
                          THEN data.expenses[i].amount ELSE 0])]

\* C8: projected_annual_net is 52 times the mean of (weekly earnings -
\* weekly expenses) over exactly the weeks with a shift or an expense, and 0
\* when there is no such week.
C8_ProjectionIsMeanTimes52 ==
  Returned =>
    LET p == data.projected_annual_net
    IN  /\ p.den > 0
        /\ IF ActiveWeeks = {}
             THEN p.num = 0
             ELSE p.num * Cardinality(ActiveWeeks)
                    = 52 * SumOver(WeekNet, ActiveWeeks) * p.den

\* C8 witness: a result over a week with shifts only, a week with expenses
\* only and a week with both.
C8_Witness ==
  /\ Returned
  /\ ShiftWeeks \ ExpenseWeekSet # {}
  /\ ExpenseWeekSet \ ShiftWeeks # {}
  /\ ShiftWeeks \cap ExpenseWeekSet # {}
  /\ data.projected_annual_net.num # 0

\* C9: the weeks of the merged weekly table are exactly the weeks holding a
\* shift together with the weeks holding an expense, each once.
C9_MergedWeeksAreUnion ==
  Returned =>
    /\ {data.all_weeks[i].week_start : i \in DOMAIN data.all_weeks} = ActiveWeeks
    /\ \A a, b \in DOMAIN data.all_weeks :
         data.all_weeks[a].week_start = data.all_weeks[b].week_start => a = b

\* C9 witness: the merged table holds a week that only the earnings series
\* has and a week that only the expenses series has.
C9_Witness ==
  /\ Returned
  /\ \E i \in DOMAIN data.all_weeks :
       /\ data.all_weeks[i].week_start \in ShiftWeeks \ ExpenseWeekSet
       /\ data.all_weeks[i].earnings > 0
  /\ \E i \in DOMAIN data.all_weeks :
       /\ data.all_weeks[i].week_start \in ExpenseWeekSet \ ShiftWeeks
       /\ data.all_weeks[i].amount > 0

\* a job record the data model rules out
MalformedJob(j) == j.base_rate <= 0 \/ j.ot_multiplier < 10

\* C10: no returned result holds figures of a malformed record (negative
\* hours, base rate <= 0, multiplier < 1): compute_financials ends in a
\* validation error instead.
C10_MalformedRecordRejected ==
  Returned =>
    \A i \in DOMAIN data.shifts :
      /\ data.shifts[i].hours >= 0
      /\ ~MalformedJob(jobs[data.shifts[i].job_id])

\* C11: two shifts of one job lie in the same (ISO year, ISO week) overtime
\* group exactly when they have the same week_start bucket, so a bucket holds
\* the whole group of a job and nothing of a neighbouring group of that job.
C11_GroupWeekIsBucketWeek ==
  Returned =>
    \A i, k \in DOMAIN data.shifts :
      data.shifts[i].job_id = data.shifts[k].job_id =>
        ((data.shifts[i].year = data.shifts[k].year
            /\ data.shifts[i].week = data.shifts[k].week)
          <=> data.shifts[i].week_start = data.shifts[k].week_start)

=============================================================================
